---- MODULE Spec2Model ----
(***************************************************************************)
(* Face-recognition attendance service: the /upload handler of src/app.py  *)
(* (register / mark attendance / check out) over an S3 bucket of reference *)
(* images, a Rekognition comparison oracle and one DynamoDB table.         *)
(*                                                                         *)
(* Strings are sequences of tokens.  A token is either one character       *)
(* ("a", "/", "-", "_", ".", a digit) or a literal of the source that      *)
(* contains no separator ("classes", "image", "jpg"), so that building a   *)
(* key and splitting it again are computed, not assumed.                   *)
(***************************************************************************)
EXTENDS Integers, Sequences, FiniteSets, TLC

\* ------------------------------------------------------------------ bounds
\* last clock tick of a behaviour (ticks 0..MaxTime)
MaxTime == 1
\* clock ticks per calendar day
TicksPerDay == 1
\* reference images drawn for a roster in the resolver specification
MaxObjects == 3

\* requests in flight at once in the concurrent specification
NumReqs == 2

\* ------------------------------------------------------- request inputs
ClassNames == { <<"c">> }
StudentNames == { <<"a">>, <<"a", "/", "b">> }
\* the names of the rosters drawn for the resolver specification
RosterNames == StudentNames \cup { <<"b">> }
\* '' and None are both falsy and the handler never tells them apart
Empty == << >>
ClassInputs == ClassNames \cup {Empty}
NameInputs == StudentNames \cup {Empty}
\* the name field is not read by attendance and checkout requests
AttendNameInputs == {Empty}
FolderInputs == {"", "existing", "attendance", "checkout", "other"}
Filenames == { <<"p", ".", "JPG">>, <<"p", ".", "txt">>, <<"p">>, Empty }
Files == {[attached |-> FALSE, filename |-> Empty]} \cup {[attached |-> TRUE, filename |-> f] : f \in Filenames}
Verdicts == {"match", "nomatch", "fail"}
RegisterFaults == {"none", "upload_fileobj", "put_item"}
AttendFaults == {"none", "list_objects_v2", "get_item", "update_item"}

\* ------------------------------------------------------------ constants
ALLOWED_EXTENSIONS == {"png", "jpg", "jpeg"}

\* ------------------------------------------------------------- strings
Range(s) == {s[i] : i \in 1..Len(s)}

lower(tok) ==
  CASE tok = "JPG" -> "jpg"
    [] tok = "PNG" -> "png"
    [] tok = "JPEG" -> "jpeg"
    [] OTHER -> tok

\* byte order of the first character of a token (S3 lists keys in UTF-8 order)
OrdTable ==
  ("-" :> 45) @@ ("." :> 46) @@ ("/" :> 47) @@ ("0" :> 48) @@ ("1" :> 49) @@ ("2" :> 50) @@
  ("3" :> 51) @@ ("4" :> 52) @@ ("5" :> 53) @@ ("6" :> 54) @@ ("7" :> 55) @@ ("8" :> 56) @@
  ("9" :> 57) @@ ("_" :> 95) @@ ("a" :> 97) @@ ("b" :> 98) @@ ("c" :> 99) @@
  ("classes" :> 99) @@ ("image" :> 105) @@ ("jpg" :> 106) @@ ("JPG" :> 74) @@ ("p" :> 112)

Ord(tok) == OrdTable[tok]

RECURSIVE LexLess(_, _)
LexLess(s, t) ==
  IF s = << >> THEN t # << >>
  ELSE IF t = << >> THEN FALSE
  ELSE IF Ord(Head(s)) # Ord(Head(t)) THEN Ord(Head(s)) < Ord(Head(t))
  ELSE LexLess(Tail(s), Tail(t))

StartsWith(s, p) == Len(p) <= Len(s) /\ SubSeq(s, 1, Len(p)) = p

\* str.split(sep): the pieces between separators, empty pieces included
RECURSIVE Split(_, _)
Split(s, sep) ==
  IF \A i \in 1..Len(s) : s[i] # sep THEN << s >>
  ELSE LET k == CHOOSE i \in 1..Len(s) : s[i] = sep /\ \A j \in 1..(i - 1) : s[j] # sep
       IN << SubSeq(s, 1, k - 1) >> \o Split(SubSeq(s, k + 1, Len(s)), sep)

\* filename.rsplit('.', 1)[1]
RSplitDot(filename) ==
  LET k == CHOOSE i \in 1..Len(filename) : filename[i] = "." /\ \A j \in (i + 1)..Len(filename) : filename[j] # "."
  IN SubSeq(filename, k + 1, Len(filename))

allowed_file(filename) ==
  /\ "." \in Range(filename)
  /\ LET ext == RSplitDot(filename)
     IN Len(ext) = 1 /\ lower(ext[1]) \in ALLOWED_EXTENSIONS

\* ---------------------------------------------------------------- clock
get_current_date(t) == t \div TicksPerDay
get_formatted_time(t) == t

\* ----------------------------------------------------------------- keys
S3Key(class_name, student_name, t) ==
  <<"classes", "/">> \o class_name \o <<"/">> \o student_name \o <<"/">> \o <<ToString(t), "_", "image", ".", "jpg">>

ListPrefix(class_name) == <<"classes", "/">> \o class_name \o <<"/">>

TableKey(class_name, student_name) == class_name \o <<"-">> \o student_name

\* --------------------------------------------------------------- stores
\* the bucket maps each object key to the identity that registered it
s3_put(bkt, key, owner) == [k \in DOMAIN bkt \cup {key} |-> IF k = key THEN owner ELSE bkt[k]]

RECURSIVE SortKeys(_)
SortKeys(S) ==
  IF S = {} THEN << >>
  ELSE LET m == CHOOSE k \in S : \A o \in S \ {k} : LexLess(k, o)
       IN << m >> \o SortKeys(S \ {m})

\* the identities of the key specification: two of them differ only in where
\* the '-' of the table key falls
KeyClasses == { <<"c">>, <<"c", "-", "a">> }
KeyNames == { <<"b">>, <<"a", "-", "b">> }

\* every key a registration can write, in key order
AllKeys ==
  {S3Key(c, n, t) : c \in ClassNames, n \in RosterNames, t \in 0..MaxTime} \cup
  {S3Key(c, n, t) : c \in KeyClasses, n \in KeyNames, t \in 0..MaxTime}
KeyOrder == SortKeys(AllKeys)

\* s3.list_objects_v2(Bucket, Prefix): the keys under the prefix, in key order
list_objects_v2(bkt, prefix) ==
  SelectSeq(KeyOrder, LAMBDA k : k \in DOMAIN bkt /\ StartsWith(k, prefix))

upload_to_s3(bkt, class_name, student_name, t) ==
  s3_put(bkt, S3Key(class_name, student_name, t), [class |-> class_name, name |-> student_name])

put_item(tbl, key, item) == [k \in DOMAIN tbl \cup {key} |-> IF k = key THEN item ELSE tbl[k]]

\* a registration that updates a stored item in place instead of replacing it
record_attendance_keep(tbl, class_name, student_name, status, t) ==
  LET key == TableKey(class_name, student_name)
      fresh == [awstable |-> key, className |-> class_name, studentName |-> student_name,
                date |-> get_current_date(t), timestamp |-> get_formatted_time(t),
                status |-> status, lastAttendanceDate |-> get_current_date(t)]
  IN put_item(tbl, key,
              IF key \in DOMAIN tbl
              THEN [a \in DOMAIN tbl[key] \cup {"status", "timestamp"} |->
                      IF a = "status" THEN status
                      ELSE IF a = "timestamp" THEN get_formatted_time(t)
                      ELSE tbl[key][a]]
              ELSE fresh)

record_attendance_in_dynamodb(tbl, class_name, student_name, status, t) ==
  put_item(tbl, TableKey(class_name, student_name),
           [awstable |-> TableKey(class_name, student_name),
            className |-> class_name,
            studentName |-> student_name,
            date |-> get_current_date(t),
            timestamp |-> get_formatted_time(t),
            status |-> status,
            lastAttendanceDate |-> get_current_date(t)])

\* (has_record_today, current_status)
get_today_attendance_record(tbl, class_name, student_name, t) ==
  LET key == TableKey(class_name, student_name)
  IN IF key \in DOMAIN tbl
     THEN LET item == tbl[key]
          IN [has_record_today |-> "date" \in DOMAIN item /\ item["date"] = get_current_date(t),
              current_status |-> IF "status" \in DOMAIN item THEN item["status"] ELSE "None"]
     ELSE [has_record_today |-> FALSE, current_status |-> "None"]

\* an update that sets the timestamp and forgets the status
update_timestamp_only(tbl, class_name, student_name, status, t) ==
  LET key == TableKey(class_name, student_name)
      old == IF key \in DOMAIN tbl THEN tbl[key] ELSE [awstable |-> key]
  IN put_item(tbl, key, [a \in DOMAIN old \cup {"timestamp"} |->
                           IF a = "timestamp" THEN get_formatted_time(t) ELSE old[a]])

\* update_item is an upsert: it sets the two attributes on the stored item,
\* or creates an item holding only the key and the two attributes
update_attendance_in_dynamodb(tbl, class_name, student_name, status, t) ==
  LET key == TableKey(class_name, student_name)
      old == IF key \in DOMAIN tbl THEN tbl[key] ELSE [awstable |-> key]
      new == [a \in DOMAIN old \cup {"status", "timestamp"} |->
                IF a = "status" THEN status
                ELSE IF a = "timestamp" THEN get_formatted_time(t)
                ELSE old[a]]
  IN put_item(tbl, key, new)

\* /attendance/download: the scan keeps the items whose className equals the
\* class (an item without the attribute never matches); formatting a kept item
\* reads its four attributes, and a missing one raises KeyError (status 500)
download_attendance(tbl, class_name) ==
  LET records == {k \in DOMAIN tbl : "className" \in DOMAIN tbl[k] /\ tbl[k]["className"] = class_name}
  IN IF \E k \in records : ~({"studentName", "date", "status", "timestamp"} \subseteq DOMAIN tbl[k])
     THEN [code |-> 500, rows |-> {}]
     ELSE [code |-> 200,
           rows |-> {<<tbl[k]["studentName"], tbl[k]["date"], tbl[k]["status"], tbl[k]["timestamp"]>> : k \in records}]

\* ------------------------------------------------------------- resolver
HasImageExt(key) == key # << >> /\ key[Len(key)] \in ALLOWED_EXTENSIONS

\* a comparison loop that takes a failed comparison for a non-match
RECURSIVE ResolveSwallow(_, _, _, _)
ResolveSwallow(items, verdict, i, calls) ==
  IF i > Len(items) THEN [status |-> "nomatch", name |-> Empty, compared |-> calls]
  ELSE IF ~HasImageExt(items[i]) THEN ResolveSwallow(items, verdict, i + 1, calls)
  ELSE IF verdict[i] = "match"
       THEN [status |-> "matched", name |-> Split(items[i], "/")[3], compared |-> calls + 1]
  ELSE ResolveSwallow(items, verdict, i + 1, calls + 1)

\* the comparison loop from item i on; verdict[i] is the oracle's answer for
\* the i-th listed key ("fail": rekognition.compare_faces raises)
RECURSIVE ResolveFrom(_, _, _, _)
ResolveFrom(items, verdict, i, calls) ==
  IF i > Len(items) THEN [status |-> "nomatch", name |-> Empty, compared |-> calls]
  ELSE IF ~HasImageExt(items[i]) THEN ResolveFrom(items, verdict, i + 1, calls)
  ELSE IF verdict[i] = "fail" THEN [status |-> "error", name |-> Empty, compared |-> calls + 1]
  ELSE IF verdict[i] = "match"
       THEN [status |-> "matched", name |-> Split(items[i], "/")[3], compared |-> calls + 1]
  ELSE ResolveFrom(items, verdict, i + 1, calls + 1)

Resolve(items, verdict) == ResolveFrom(items, verdict, 1, 0)

\* ---------------------------------------------------------- the handler
ValidFiles == {f \in Files : f.attached /\ f.filename # Empty /\ allowed_file(f.filename)}

\* the JSON body and status code; name is the student name the message quotes
Resp(code, success, message, name) ==
  [code |-> code, success |-> success, message |-> message, name |-> name]

\* writes counts the put_item and update_item calls that completed
Out(resp, tbl, bkt, recognized, compared, writes) ==
  [response |-> resp, table |-> tbl, bucket |-> bkt, recognized |-> recognized, compared |-> compared,
   writes |-> writes]

\* the except clause: whatever was written before the failing call stays written
Exception(what, tbl, bkt, compared) ==
  Out(Resp(400, FALSE, "Exception: " \o what, Empty), tbl, bkt, Empty, compared, 0)

\* a registration that writes the record before the reference image
RegisterRecordFirst(class_name, student_name, fault, tbl, bkt, t) ==
  IF fault = "put_item" THEN Exception(fault, tbl, bkt, 0)
  ELSE LET tbl1 == record_attendance_in_dynamodb(tbl, class_name, student_name, "Registered", t)
       IN IF fault = "upload_fileobj" THEN Exception(fault, tbl1, bkt, 0)
          ELSE Out(Resp(200, TRUE, "Face registered", student_name), tbl1,
                   upload_to_s3(bkt, class_name, student_name, t), Empty, 0, 1)

Register(class_name, student_name, fault, tbl, bkt, t) ==
  IF fault = "upload_fileobj" THEN Exception(fault, tbl, bkt, 0)
  ELSE LET bkt1 == upload_to_s3(bkt, class_name, student_name, t)
       IN IF fault = "put_item" THEN Exception(fault, tbl, bkt1, 0)
          ELSE Out(Resp(200, TRUE, "Face registered", student_name),
                   record_attendance_in_dynamodb(tbl, class_name, student_name, "Registered", t),
                   bkt1, Empty, 0, 1)

\* a transition that stamps the record before it rejects the request
TransitionStampFirst(class_name, recognized_name, folder, fault, tbl, bkt, t, compared) ==
  IF fault = "get_item" THEN Exception(fault, tbl, bkt, compared)
  ELSE
  LET rec == get_today_attendance_record(tbl, class_name, recognized_name, t)
      status == IF folder = "attendance" THEN "Present" ELSE "Checked Out"
      Reject(message) ==
        Out(Resp(400, FALSE, message, recognized_name),
            update_attendance_in_dynamodb(tbl, class_name, recognized_name, rec.current_status, t),
            bkt, recognized_name, compared, 1)
  IN IF rec.has_record_today /\ folder = "attendance" /\ rec.current_status \in {"Present", "Checked Out"}
     THEN Reject("has already marked attendance today")
     ELSE IF rec.has_record_today /\ folder = "checkout" /\ rec.current_status = "Checked Out"
     THEN Reject("has already checked out today")
     ELSE IF rec.has_record_today /\ folder = "checkout" /\ rec.current_status # "Present"
     THEN Reject("must mark attendance before checking out")
     ELSE IF fault = "update_item" THEN Exception(fault, tbl, bkt, compared)
     ELSE Out(Resp(200, TRUE, status \o " marked", recognized_name),
              update_attendance_in_dynamodb(tbl, class_name, recognized_name, status, t),
              bkt, recognized_name, compared, 1)

Transition(class_name, recognized_name, folder, fault, tbl, bkt, t, compared) ==
  IF fault = "get_item" THEN Exception(fault, tbl, bkt, compared)
  ELSE
  LET rec == get_today_attendance_record(tbl, class_name, recognized_name, t)
      status == IF folder = "attendance" THEN "Present" ELSE "Checked Out"
      Reject(message) == Out(Resp(400, FALSE, message, recognized_name), tbl, bkt, recognized_name, compared, 0)
  IN IF rec.has_record_today /\ folder = "attendance" /\ rec.current_status \in {"Present", "Checked Out"}
     THEN Reject("has already marked attendance today")
     ELSE IF rec.has_record_today /\ folder = "checkout" /\ rec.current_status = "Checked Out"
     THEN Reject("has already checked out today")
     ELSE IF rec.has_record_today /\ folder = "checkout" /\ rec.current_status # "Present"
     THEN Reject("must mark attendance before checking out")
     ELSE IF fault = "update_item" THEN Exception(fault, tbl, bkt, compared)
     ELSE Out(Resp(200, TRUE, status \o " marked", recognized_name),
              update_attendance_in_dynamodb(tbl, class_name, recognized_name, status, t),
              bkt, recognized_name, compared, 1)

Recognize(class_name, folder, verdict, fault, tbl, bkt, t) ==
  IF fault = "list_objects_v2" THEN Exception(fault, tbl, bkt, 0)
  ELSE
  LET r == Resolve(list_objects_v2(bkt, ListPrefix(class_name)), verdict)
  IN IF r.status = "error" THEN Exception("compare_faces", tbl, bkt, r.compared)
     ELSE IF r.name = Empty
     THEN Out(Resp(400, FALSE, "Face recognition is unmatched among the students", Empty), tbl, bkt, Empty, r.compared, 0)
     ELSE Transition(class_name, r.name, folder, fault, tbl, bkt, t, r.compared)

Validate(file, class_name, student_name, folder) ==
  IF ~file.attached THEN "No file uploaded"
  ELSE IF file.filename = Empty \/ ~allowed_file(file.filename) THEN "Invalid file type"
  ELSE IF class_name = Empty THEN "Class name is required"
  ELSE IF folder = "" THEN "Folder type is required"
  ELSE IF folder = "existing" /\ student_name = Empty THEN "Student name is required for registration"
  ELSE "ok"

upload(file, class_name, student_name, folder, verdict, fault, tbl, bkt, t) ==
  LET v == Validate(file, class_name, student_name, folder)
  IN IF v # "ok" THEN Out(Resp(400, FALSE, v, Empty), tbl, bkt, Empty, 0, 0)
     ELSE IF folder = "existing" THEN Register(class_name, student_name, fault, tbl, bkt, t)
     ELSE Recognize(class_name, folder, verdict, fault, tbl, bkt, t)

\* ---------------------------------------------------------------- state
\* table: the DynamoDB table, key -> item (an item maps attribute names to values)
\* bucket: the S3 bucket, object key -> registering identity
\* now: the wall clock;  last: the response to the request handled last
VARIABLES table, bucket, now, last

vars == <<table, bucket, now, last>>

NoRequest == Resp(0, FALSE, "", Empty)

Init ==
  /\ table = << >>
  /\ bucket = << >>
  /\ now = 0
  /\ last = NoRequest

\* one /upload request, handled from validation to response
UploadStep(file, class_name, student_name, folder, verdict, fault) ==
  LET o == upload(file, class_name, student_name, folder, verdict, fault, table, bucket, now)
  IN /\ table' = o.table
     /\ bucket' = o.bucket
     /\ last' = o.response
     /\ UNCHANGED now

NoVerdict == << >>

\* the oracle's answers for n listed keys: no match at all, or a first match or
\* failure at some key k (the keys after k are never submitted to the oracle)
Answers(n) ==
  {[i \in 1..n |-> "nomatch"]} \cup
  {[i \in 1..n |-> IF i = k THEN kind ELSE "nomatch"] : k \in 1..n, kind \in Verdicts \ {"nomatch"}}

Listed(class_name) == list_objects_v2(bucket, ListPrefix(class_name))

\* a request that fails validation
UploadInvalid ==
  \E file \in Files, class_name \in ClassInputs, student_name \in NameInputs, folder \in FolderInputs :
    /\ Validate(file, class_name, student_name, folder) # "ok"
    /\ UploadStep(file, class_name, student_name, folder, NoVerdict, "none")

\* a valid registration request (folder 'existing')
UploadRegister ==
  \E file \in ValidFiles, class_name \in ClassNames, student_name \in StudentNames, fault \in RegisterFaults :
    UploadStep(file, class_name, student_name, "existing", NoVerdict, fault)

\* a valid request with any other folder: recognition, then the status update
UploadAttend ==
  \E file \in ValidFiles, class_name \in ClassNames, student_name \in AttendNameInputs,
     folder \in FolderInputs \ {"", "existing"}, fault \in AttendFaults :
    \E verdict \in Answers(Len(Listed(class_name))) :
      UploadStep(file, class_name, student_name, folder, verdict, fault)

\* the wall clock advances
Tick ==
  /\ now < MaxTime
  /\ now' = now + 1
  /\ UNCHANGED <<table, bucket, last>>

Next == UploadInvalid \/ UploadRegister \/ UploadAttend \/ Tick

Spec == Init /\ [][Next]_vars

\* ------------------------------------------- the resolver specification
\* Rosters are drawn as the result of registrations; one recognition request
\* is then handled with an arbitrary answer of the oracle for every listed
\* key, and last keeps the whole request next to its response.
Registrations == ClassNames \X RosterNames \X (0..MaxTime)

RECURSIVE RegisterAll(_, _, _)
RegisterAll(R, tbl, bkt) ==
  IF R = {} THEN [table |-> tbl, bucket |-> bkt]
  ELSE LET r == CHOOSE x \in R : \A y \in R : x[3] < y[3] \/ (x[3] = y[3] /\ ~LexLess(y[2], x[2]))
           o == Register(r[1], r[2], "none", tbl, bkt, r[3])
       IN RegisterAll(R \ {r}, o.table, o.bucket)

InitResolve ==
  \E R \in SUBSET Registrations :
    /\ Cardinality(R) <= MaxObjects
    /\ LET o == RegisterAll(R, << >>, << >>)
       IN table = o.table /\ bucket = o.bucket
    /\ now \in {t \in 0..MaxTime : \A r \in R : r[3] <= t}
    /\ last = NoRequest

UploadProbe ==
  /\ last = NoRequest
  /\ \E file \in ValidFiles, class_name \in ClassNames, folder \in {"attendance", "checkout"} :
       \E verdict \in [1..Len(Listed(class_name)) -> Verdicts] :
         LET o == upload(file, class_name, Empty, folder, verdict, "none", table, bucket, now)
         IN /\ table' = o.table
            /\ bucket' = o.bucket
            /\ last' = [response |-> o.response, class |-> class_name, folder |-> folder,
                        items |-> Listed(class_name), verdict |-> verdict,
                        recognized |-> o.recognized, compared |-> o.compared, before |-> table]
            /\ UNCHANGED now

NextResolve == UploadProbe

SpecResolve == InitResolve /\ [][NextResolve]_vars

\* =============================================================== claims
\* Requests of the claims, applied to the stores of a reachable state.
AnyFile == CHOOSE f \in ValidFiles : TRUE

\* the response and the stores after one recognition request with no store fault
Attend(folder, class_name, verdict, tbl, bkt, t) ==
  upload(AnyFile, class_name, Empty, folder, verdict, "none", tbl, bkt, t)

\* the name the resolver returns for the answers of the oracle (Empty: none)
Resolved(class_name, verdict, bkt) == Resolve(list_objects_v2(bkt, ListPrefix(class_name)), verdict).name

\* the item stored for an identity is the same in both tables
SameItem(t1, t2, key) ==
  /\ (key \in DOMAIN t1) <=> (key \in DOMAIN t2)
  /\ key \in DOMAIN t1 => t1[key] = t2[key]

\* the identity has a record that a registration wrote
HasRecord(tbl, key) == key \in DOMAIN tbl /\ "date" \in DOMAIN tbl[key]

SameDay(t) == {u \in t..MaxTime : get_current_date(u) = get_current_date(t)}

\* the calendar date inside a formatted timestamp
DateOfTimestamp(ts) == ts \div TicksPerDay

ValidationMessages ==
  {"No file uploaded", "Invalid file type", "Class name is required", "Folder type is required",
   "Student name is required for registration"}

Unmatched == "Face recognition is unmatched among the students"

\* C1: for an identity that has a record, whatever its status and date, when a
\* MarkPresent is accepted and a second MarkPresent for the same identity
\* follows on the same calendar day, the second is rejected as already marked
\* today and leaves the identity's record as it was.
C1_MarkPresentIdempotent ==
  \A c \in ClassNames : \A v \in Answers(Len(Listed(c))) :
    LET n == Resolved(c, v, bucket)
        o1 == Attend("attendance", c, v, table, bucket, now)
    IN (n # Empty /\ HasRecord(table, TableKey(c, n)) /\ o1.response.success) =>
         \A u \in SameDay(now) :
           LET o2 == Attend("attendance", c, v, o1.table, o1.bucket, u)
           IN /\ o2.response.message = "has already marked attendance today"
              /\ SameItem(o1.table, o2.table, TableKey(c, n))

\* C2: a CheckOut for an identity whose record was last written on an earlier
\* day (so no MarkPresent was accepted for it today), whatever status the
\* record carries, is rejected with must-mark-present-first and writes nothing.
C2_CheckOutNeedsMarkPresent ==
  \A c \in ClassNames : \A v \in Answers(Len(Listed(c))) :
    LET n == Resolved(c, v, bucket)
        key == TableKey(c, n)
        o == Attend("checkout", c, v, table, bucket, now)
    IN (n # Empty /\ HasRecord(table, key)
          /\ DateOfTimestamp(table[key]["timestamp"]) < get_current_date(now)) =>
         /\ o.response.message = "must mark attendance before checking out"
         /\ o.table = table

\* C3: a MarkPresent applied to a record dated before today with status
\* Present or Checked Out is accepted and leaves the record Present and dated
\* today.
C3_DayBoundaryReset ==
  \A c \in ClassNames : \A v \in Answers(Len(Listed(c))) :
    LET n == Resolved(c, v, bucket)
        key == TableKey(c, n)
        o == Attend("attendance", c, v, table, bucket, now)
    IN (n # Empty /\ HasRecord(table, key)
          /\ table[key]["date"] < get_current_date(now)
          /\ table[key]["status"] \in {"Present", "Checked Out"}) =>
         /\ o.response.success
         /\ o.table[key]["status"] = "Present"
         /\ o.table[key]["date"] = get_current_date(now)

\* C4: once a MarkPresent has been accepted today for an identity that has a
\* record, a CheckOut today is accepted and sets Checked Out, and a further
\* CheckOut on the same day is rejected as already checked out today and
\* leaves the record unchanged.
C4_CheckOutOnce ==
  \A c \in ClassNames : \A v \in Answers(Len(Listed(c))) :
    LET n == Resolved(c, v, bucket)
        key == TableKey(c, n)
        o1 == Attend("attendance", c, v, table, bucket, now)
    IN (n # Empty /\ HasRecord(table, key) /\ o1.response.success) =>
         \A u \in SameDay(now) :
           LET o2 == Attend("checkout", c, v, o1.table, o1.bucket, u)
           IN /\ o2.response.success
              /\ o2.table[key]["status"] = "Checked Out"
              /\ \A w \in SameDay(u) :
                   LET o3 == Attend("checkout", c, v, o2.table, o2.bucket, w)
                   IN /\ o3.response.message = "has already checked out today"
                      /\ SameItem(o2.table, o3.table, key)

\* C5: when the oracle answers every comparison, the resolver reports an
\* identity only if the oracle reports a match for a reference image that this
\* identity of this class owns, and it reports no-match exactly when no listed
\* reference image matches.
C5_ResolveSound ==
  (last # NoRequest /\ \A i \in DOMAIN last.verdict : last.verdict[i] # "fail") =>
     /\ last.recognized # Empty =>
          \E i \in DOMAIN last.items :
            /\ last.verdict[i] = "match"
            /\ bucket[last.items[i]] = [class |-> last.class, name |-> last.recognized]
     /\ last.response.message = Unmatched <=> \A i \in DOMAIN last.items : last.verdict[i] # "match"

\* C6: when the first matching reference image is the k-th listed one, exactly
\* k comparisons are made and the identity returned is the owner of that
\* image; when none matches, as many comparisons as listed images are made.
C6_ShortCircuit ==
  last # NoRequest =>
     /\ \A k \in DOMAIN last.items :
          (last.verdict[k] = "match" /\ \A j \in 1..(k - 1) : last.verdict[j] = "nomatch") =>
             /\ last.compared = k
             /\ bucket[last.items[k]] = [class |-> last.class, name |-> last.recognized]
     /\ (\A i \in DOMAIN last.items : last.verdict[i] = "nomatch") => last.compared = Len(last.items)

\* C7: a Register request with a valid name, class and image, the stores being
\* available, succeeds from every state of the identity and leaves its record
\* with status Registered and today's date, nothing of the old record kept.
C7_RegisterOverwrites ==
  \A file \in ValidFiles, c \in ClassNames, n \in StudentNames :
    LET o == upload(file, c, n, "existing", NoVerdict, "none", table, bucket, now)
        key == TableKey(c, n)
    IN /\ o.response.success /\ o.response.code = 200
       /\ key \in DOMAIN o.table
       /\ DOMAIN o.table[key] =
            {"awstable", "className", "studentName", "date", "timestamp", "status", "lastAttendanceDate"}
       /\ o.table[key]["status"] = "Registered"
       /\ o.table[key]["date"] = get_current_date(now)
       /\ o.table[key]["timestamp"] = get_formatted_time(now)
       /\ o.table[key]["className"] = c /\ o.table[key]["studentName"] = n

\* C7 witness: an identity that already owns an earlier reference image has
\* just been registered again and its record is the fresh one.
C7_Witness ==
  \E c \in ClassNames, n \in StudentNames :
    /\ last.message = "Face registered" /\ last.name = n
    /\ TableKey(c, n) \in DOMAIN table
    /\ table[TableKey(c, n)]["status"] = "Registered"
    /\ table[TableKey(c, n)]["date"] = get_current_date(now)
    /\ \E k \in DOMAIN bucket : bucket[k] = [class |-> c, name |-> n] /\ k # S3Key(c, n, now)

\* C8: a MarkPresent or CheckOut whose resolved identity has no attendance
\* record is rejected and creates no record.
C8_NotRegisteredRejected ==
  \A c \in ClassNames, folder \in {"attendance", "checkout"} : \A v \in Answers(Len(Listed(c))) :
    LET n == Resolved(c, v, bucket)
        o == Attend(folder, c, v, table, bucket, now)
    IN (n # Empty /\ TableKey(c, n) \notin DOMAIN table) =>
         /\ ~o.response.success
         /\ o.table = table

\* C9: a request whose folder is missing or is none of 'existing',
\* 'attendance', 'checkout', or whose class, image or (for a registration)
\* name is missing, is answered with an error and writes neither store.
C9_InvalidRequestNoWrite ==
  \A file \in Files, c \in ClassInputs, n \in NameInputs, folder \in FolderInputs :
    \A v \in Answers(Len(Listed(c))) :
      LET o == upload(file, c, n, folder, v, "none", table, bucket, now)
      IN (\/ folder \notin {"existing", "attendance", "checkout"}
          \/ c = Empty
          \/ ~file.attached \/ file.filename = Empty
          \/ (folder = "existing" /\ n = Empty)) =>
           /\ ~o.response.success /\ o.response.code = 400
           /\ o.table = table
           /\ o.bucket = bucket

\* C10: when the oracle fails on a reference image before any match, no later
\* reference is compared, the response is an error other than the no-match
\* response, and the record store is not written.
C10_OracleFailureAborts ==
  last # NoRequest =>
    \A k \in DOMAIN last.items :
      (last.verdict[k] = "fail" /\ \A j \in 1..(k - 1) : last.verdict[j] = "nomatch") =>
         /\ last.compared = k
         /\ last.recognized = Empty
         /\ ~last.response.success
         /\ last.response.message = "Exception: compare_faces"
         /\ last.response.message # Unmatched
         /\ table = last.before

\* C10 witness: the oracle failed on a reference image, a later one would
\* have matched, and the identity of the later one has a record.
C10_Witness ==
  /\ last # NoRequest
  /\ \E k \in DOMAIN last.items :
       /\ last.verdict[k] = "fail"
       /\ \A j \in 1..(k - 1) : last.verdict[j] = "nomatch"
       /\ \E m \in (k + 1)..Len(last.items) :
            /\ last.verdict[m] = "match"
            /\ TableKey(last.class, Split(last.items[m], "/")[3]) \in DOMAIN table

\* C11: in a Register request the reference image is written to the blob store
\* before the record is written: when the blob write fails the request reports
\* failure and both stores are as before, and when the record write fails the
\* image is already stored.
C11_BlobBeforeRecord ==
  \A file \in ValidFiles, c \in ClassNames, n \in StudentNames :
    LET blobFails == upload(file, c, n, "existing", NoVerdict, "upload_fileobj", table, bucket, now)
        recordFails == upload(file, c, n, "existing", NoVerdict, "put_item", table, bucket, now)
    IN /\ ~blobFails.response.success
       /\ blobFails.table = table
       /\ blobFails.bucket = bucket
       /\ ~recordFails.response.success
       /\ recordFails.table = table
       /\ S3Key(c, n, now) \in DOMAIN recordFails.bucket

\* C11 witness: the blob write of a registration has just failed while a
\* record of that class is stored.
C11_Witness ==
  /\ last.message = "Exception: upload_fileobj"
  /\ \E c \in ClassNames, n \in StudentNames :
       /\ TableKey(c, n) \in DOMAIN table
       /\ S3Key(c, n, now) \notin DOMAIN bucket

\* C12: an identity has a stored reference image in the class roster exactly
\* when it has an attendance record.
C12_NoPartialState ==
  \A c \in ClassNames, n \in StudentNames :
    (\E k \in DOMAIN bucket : bucket[k] = [class |-> c, name |-> n]) <=> TableKey(c, n) \in DOMAIN table

\* C13: within one calendar day, once a MarkPresent has been accepted for an
\* identity, no later MarkPresent for it is accepted that day, whether or not
\* a CheckOut came in between (the status never returns to Present).
C13_DailyRatchet ==
  \A c \in ClassNames : \A v \in Answers(Len(Listed(c))) :
    LET n == Resolved(c, v, bucket)
        o1 == Attend("attendance", c, v, table, bucket, now)
    IN (n # Empty /\ HasRecord(table, TableKey(c, n)) /\ o1.response.success) =>
         \A u \in SameDay(now) :
           /\ ~Attend("attendance", c, v, o1.table, o1.bucket, u).response.success
           /\ LET o2 == Attend("checkout", c, v, o1.table, o1.bucket, u)
              IN \A w \in SameDay(u) :
                   ~Attend("attendance", c, v, o2.table, o2.bucket, w).response.success

\* C16: after a successful Register of a student in a class, a MarkPresent on
\* the same day whose probe matches the reference image just registered (and
\* no other image) resolves to that student, is accepted and leaves the
\* student's record with status Present.
C16_RegisterThenMarkPresent ==
  \A c \in ClassNames, n \in StudentNames :
    LET reg == upload(AnyFile, c, n, "existing", NoVerdict, "none", table, bucket, now)
        items == list_objects_v2(reg.bucket, ListPrefix(c))
    IN \A k \in DOMAIN items :
         items[k] = S3Key(c, n, now) =>
           \A u \in SameDay(now) :
             LET v == [i \in DOMAIN items |-> IF i = k THEN "match" ELSE "nomatch"]
                 o == Attend("attendance", c, v, reg.table, reg.bucket, u)
             IN /\ reg.response.success
                /\ o.recognized = n
                /\ o.response.success
                /\ o.table[TableKey(c, n)]["status"] = "Present"

\* an accepted request made one record write; any other request made none and
\* left the table as it was
OneWriteOrNone(o, tbl) ==
  IF o.response.success THEN o.writes = 1 ELSE o.writes = 0 /\ o.table = tbl

\* C17: every accepted Register, MarkPresent or CheckOut request performs
\* exactly one write to the record store, and every request that is rejected,
\* finds no match or fails performs none and leaves the records as they were.
C17_OneWritePerAcceptedRequest ==
  /\ \A file \in Files, c \in ClassInputs, n \in NameInputs, folder \in FolderInputs :
       Validate(file, c, n, folder) # "ok" =>
         LET o == upload(file, c, n, folder, NoVerdict, "none", table, bucket, now)
         IN ~o.response.success /\ OneWriteOrNone(o, table)
  /\ \A c \in ClassNames, n \in StudentNames, fault \in RegisterFaults :
       OneWriteOrNone(upload(AnyFile, c, n, "existing", NoVerdict, fault, table, bucket, now), table)
  /\ \A c \in ClassNames, folder \in {"attendance", "checkout"}, fault \in AttendFaults :
       \A v \in Answers(Len(Listed(c))) :
         OneWriteOrNone(upload(AnyFile, c, Empty, folder, v, fault, table, bucket, now), table)

\* C17 witness: a CheckOut has just been rejected for a student whose record
\* the accepted requests before it brought to Checked Out today.
C17_Witness ==
  /\ last.message = "has already checked out today"
  /\ \E c \in ClassNames :
       /\ TableKey(c, last.name) \in DOMAIN table
       /\ table[TableKey(c, last.name)]["status"] = "Checked Out"
       /\ HasRecord(table, TableKey(c, last.name))
       /\ table[TableKey(c, last.name)]["date"] = get_current_date(now)

\* C19: every record in the record store carries className, studentName,
\* date, status and timestamp, its status is one of Registered, Present and
\* Checked Out, and the export of its class holds the record's row.
C19_RecordsComplete ==
  \A k \in DOMAIN table :
    /\ {"className", "studentName", "date", "status", "timestamp"} \subseteq DOMAIN table[k]
    /\ table[k]["status"] \in {"Registered", "Present", "Checked Out"}
    /\ LET csv == download_attendance(table, table[k]["className"])
       IN /\ csv.code = 200
          /\ <<table[k]["studentName"], table[k]["date"], table[k]["status"], table[k]["timestamp"]>> \in csv.rows

\* ------------------------------------------------ the key specification
\* Registrations and recognitions over identities whose class or name holds
\* the separator of the table key.
KeyRegister ==
  \E file \in ValidFiles, class_name \in KeyClasses, student_name \in KeyNames :
    /\ Cardinality(DOMAIN bucket) < MaxObjects \/ S3Key(class_name, student_name, now) \in DOMAIN bucket
    /\ UploadStep(file, class_name, student_name, "existing", NoVerdict, "none")

KeyAttend ==
  \E file \in ValidFiles, class_name \in KeyClasses, folder \in {"attendance", "checkout"} :
    \E verdict \in Answers(Len(Listed(class_name))) :
      UploadStep(file, class_name, Empty, folder, verdict, "none")

NextKeys == KeyRegister \/ KeyAttend \/ Tick

SpecKeys == Init /\ [][NextKeys]_vars

\* the item stored under the identity's key is the identity's own record
OwnRecord(tbl, class_name, student_name) ==
  /\ HasRecord(tbl, TableKey(class_name, student_name))
  /\ tbl[TableKey(class_name, student_name)]["className"] = class_name
  /\ tbl[TableKey(class_name, student_name)]["studentName"] = student_name

\* C14: distinct identities never share a record, also when a class or a name
\* contains the separator: a Register, MarkPresent or CheckOut applied to one
\* identity leaves the record of every other identity unchanged.
C14_DistinctIdentitiesDistinctRecords ==
  \A c2 \in KeyClasses, n2 \in KeyNames :
    OwnRecord(table, c2, n2) =>
      /\ \A file \in ValidFiles, c \in KeyClasses, n \in KeyNames :
           <<c, n>> # <<c2, n2>> =>
             SameItem(table, upload(file, c, n, "existing", NoVerdict, "none", table, bucket, now).table,
                      TableKey(c2, n2))
      /\ \A c \in KeyClasses, folder \in {"attendance", "checkout"} : \A v \in Answers(Len(Listed(c))) :
           <<c, Resolved(c, v, bucket)>> # <<c2, n2>> =>
             SameItem(table, Attend(folder, c, v, table, bucket, now).table, TableKey(c2, n2))

\* ----------------------------------------- the concurrent specification
\* NumReqs requests for one identity are in flight at once.  A recognition
\* request reads the record and decides (ConcRead), then writes (ConcWrite);
\* a registration writes the image (ConcUploadBlob), then the record
\* (ConcPutRecord).  last.reqs is the progress of each request, last.marked
\* tells whether a MarkPresent write came after the latest Register write.
ConcClass == <<"c">>
ConcName == <<"a">>
Reqs == 1..NumReqs
ConcFolders == {"existing", "attendance", "checkout"}

\* the stores after a registration at time 0, a MarkPresent and a CheckOut
ConcRegistered == Register(ConcClass, ConcName, "none", << >>, << >>, 0)
ConcPresent == Attend("attendance", ConcClass, <<"match">>, ConcRegistered.table, ConcRegistered.bucket, 0)
ConcCheckedOut == Attend("checkout", ConcClass, <<"match">>, ConcPresent.table, ConcPresent.bucket, 0)

InitConc ==
  \E start \in {"Registered", "Present", "Checked Out"}, folders \in [Reqs -> ConcFolders] :
    LET o == CASE start = "Registered" -> ConcRegistered
               [] start = "Present" -> ConcPresent
               [] OTHER -> ConcCheckedOut
    IN /\ table = o.table
       /\ bucket = o.bucket
       /\ now \in 0..MaxTime
       /\ last = [reqs |-> [r \in Reqs |-> [folder |-> folders[r], pc |-> "start", name |-> Empty,
                                            status |-> "", response |-> NoRequest]],
                  marked |-> start # "Registered"]

ReqDone(r, name, response) ==
  [last.reqs EXCEPT ![r] = [@ EXCEPT !.pc = "done", !.name = name, !.response = response]]

\* list, compare, get_item and the guards of one recognition request
ConcRead(r) ==
  /\ last.reqs[r].pc = "start"
  /\ last.reqs[r].folder # "existing"
  /\ \E file \in ValidFiles : \E verdict \in Answers(Len(Listed(ConcClass))) :
       LET o == upload(file, ConcClass, Empty, last.reqs[r].folder, verdict, "none", table, bucket, now)
       IN last' = [last EXCEPT !.reqs =
                     IF o.response.success
                     THEN [last.reqs EXCEPT ![r] =
                             [@ EXCEPT !.pc = "write", !.name = o.recognized,
                                       !.status = o.table[TableKey(ConcClass, o.recognized)]["status"],
                                       !.response = o.response]]
                     ELSE ReqDone(r, o.recognized, o.response)]
  /\ UNCHANGED <<table, bucket, now>>

\* the update_item of a recognition request that passed the guards
ConcWrite(r) ==
  /\ last.reqs[r].pc = "write"
  /\ last.reqs[r].folder # "existing"
  /\ table' = update_attendance_in_dynamodb(table, ConcClass, last.reqs[r].name, last.reqs[r].status, now)
  /\ last' = [reqs |-> ReqDone(r, last.reqs[r].name, last.reqs[r].response),
              marked |-> last.marked \/ last.reqs[r].folder = "attendance"]
  /\ UNCHANGED <<bucket, now>>

\* the S3 upload of a registration
ConcUploadBlob(r) ==
  /\ last.reqs[r].pc = "start"
  /\ last.reqs[r].folder = "existing"
  /\ bucket' = upload_to_s3(bucket, ConcClass, ConcName, now)
  /\ last' = [last EXCEPT !.reqs[r].pc = "write", !.reqs[r].name = ConcName]
  /\ UNCHANGED <<table, now>>

\* the put_item of a registration
ConcPutRecord(r) ==
  /\ last.reqs[r].pc = "write"
  /\ last.reqs[r].folder = "existing"
  /\ table' = record_attendance_in_dynamodb(table, ConcClass, ConcName, "Registered", now)
  /\ last' = [reqs |-> ReqDone(r, ConcName, Resp(200, TRUE, "Face registered", ConcName)),
              marked |-> FALSE]
  /\ UNCHANGED <<bucket, now>>

NextConc == \E r \in Reqs : ConcRead(r) \/ ConcWrite(r) \/ ConcUploadBlob(r) \/ ConcPutRecord(r)

SpecConc == InitConc /\ [][NextConc]_vars

ConcKey == TableKey(ConcClass, ConcName)

\* C15: when all the requests in flight are MarkPresent requests for the same
\* identity and all of them have been accepted, the stored status is Present.
C15_ConcurrentMarkPresent ==
  (\A r \in Reqs : /\ last.reqs[r].folder = "attendance"
                   /\ last.reqs[r].pc = "done"
                   /\ last.reqs[r].response.success
                   /\ last.reqs[r].name = ConcName) =>
     table[ConcKey]["status"] = "Present"

\* C15 witness: all the MarkPresent requests passed the guards and were
\* accepted although the record is dated today, so each read the record
\* before any of them wrote it.
C15_Witness ==
  /\ \A r \in Reqs : /\ last.reqs[r].folder = "attendance"
                     /\ last.reqs[r].pc = "done"
                     /\ last.reqs[r].response.success
  /\ table[ConcKey]["date"] = get_current_date(now)
  /\ table[ConcKey]["status"] = "Present"

\* C20: the record holds Checked Out with today's date only if a MarkPresent
\* write came after the latest Register write of the identity.
C20_NoCheckOutOverRegistration ==
  (/\ table[ConcKey]["status"] = "Checked Out"
   /\ table[ConcKey]["date"] = get_current_date(now)) => last.marked

\* ------------------------------------------------- the handler of src/api
\* src/api/app.py is the variant of the service deployed behind the API
\* gateway.  Its /upload requires class, name and folder of every request and
\* stores the uploaded image before it looks at the folder.
ApiNames == { <<"a">> }
ApiNameInputs == ApiNames \cup {Empty}
ApiFilenames == { <<"p", ".", "jpg">>, <<"p", ".", "JPG">>, <<"p", ".", "txt">>, Empty }
ApiFiles == {[attached |-> FALSE, filename |-> Empty]} \cup {[attached |-> TRUE, filename |-> f] : f \in ApiFilenames}

api_allowed_file(filename) ==
  /\ "." \in Range(filename)
  /\ LET ext == RSplitDot(filename)
     IN Len(ext) = 1 /\ lower(ext[1]) \in ALLOWED_EXTENSIONS

ApiValidFiles == {f \in ApiFiles : f.attached /\ f.filename # Empty /\ api_allowed_file(f.filename)}

\* str.strip('._')
RECURSIVE StripDotUnderscore(_)
StripDotUnderscore(s) ==
  IF s = << >> THEN s
  ELSE IF Head(s) \in {".", "_"} THEN StripDotUnderscore(Tail(s))
  ELSE IF s[Len(s)] \in {".", "_"} THEN StripDotUnderscore(SubSeq(s, 1, Len(s) - 1))
  ELSE s

\* werkzeug's secure_filename: path separators become '_', and dots and
\* underscores are stripped from both ends
secure_filename(filename) ==
  StripDotUnderscore([i \in 1..Len(filename) |-> IF filename[i] = "/" THEN "_" ELSE filename[i]])

ApiKey(class_name, student_name, t, filename) ==
  <<"classes", "/">> \o class_name \o <<"/">> \o student_name \o <<"/">> \o
  <<ToString(t), "_">> \o secure_filename(filename)

\* every key a request of the variant can write, in key order
ApiKeys ==
  {ApiKey(c, n, t, f.filename) : c \in ClassNames, n \in ApiNames, t \in 0..MaxTime, f \in ApiValidFiles}
ApiKeyOrder == SortKeys(ApiKeys)

api_list_objects_v2(bkt, prefix) ==
  SelectSeq(ApiKeyOrder, LAMBDA k : k \in DOMAIN bkt /\ StartsWith(k, prefix))

api_upload_to_s3(bkt, class_name, student_name, t, filename) ==
  s3_put(bkt, ApiKey(class_name, student_name, t, filename), [class |-> class_name, name |-> student_name])

api_record_attendance_in_dynamodb(tbl, class_name, student_name, status, t) ==
  put_item(tbl, TableKey(class_name, student_name),
           [awstable |-> TableKey(class_name, student_name),
            className |-> class_name,
            studentName |-> student_name,
            date |-> get_current_date(t),
            timestamp |-> get_formatted_time(t),
            status |-> status])

api_update_attendance_in_dynamodb(tbl, class_name, student_name, status, t) ==
  LET key == TableKey(class_name, student_name)
      old == IF key \in DOMAIN tbl THEN tbl[key] ELSE [awstable |-> key]
  IN put_item(tbl, key, [a \in DOMAIN old \cup {"status", "timestamp"} |->
                           IF a = "status" THEN status
                           ELSE IF a = "timestamp" THEN get_formatted_time(t)
                           ELSE old[a]])

\* the comparison loop: keys that end in an allowed extension, in listing
\* order, up to the first match; a failed comparison raises
RECURSIVE api_ResolveFrom(_, _, _, _)
api_ResolveFrom(items, verdict, i, calls) ==
  IF i > Len(items) THEN [status |-> "nomatch", name |-> Empty, compared |-> calls]
  ELSE IF items[i][Len(items[i])] \notin ALLOWED_EXTENSIONS THEN api_ResolveFrom(items, verdict, i + 1, calls)
  ELSE IF verdict[i] = "fail" THEN [status |-> "error", name |-> Empty, compared |-> calls + 1]
  ELSE IF verdict[i] = "match"
       THEN [status |-> "matched", name |-> Split(items[i], "/")[3], compared |-> calls + 1]
  ELSE api_ResolveFrom(items, verdict, i + 1, calls + 1)

ApiValidate(file, class_name, student_name, folder) ==
  IF ~file.attached THEN "No file uploaded"
  ELSE IF file.filename = Empty \/ ~api_allowed_file(file.filename) THEN "Invalid file type"
  ELSE IF class_name = Empty \/ student_name = Empty \/ folder = "" THEN "Missing required fields"
  ELSE "ok"

api_upload(file, class_name, student_name, folder, verdict, tbl, bkt, t) ==
  LET v == ApiValidate(file, class_name, student_name, folder)
  IN IF v # "ok" THEN Out(Resp(400, FALSE, v, Empty), tbl, bkt, Empty, 0, 0)
     ELSE
     LET bkt1 == api_upload_to_s3(bkt, class_name, student_name, t, file.filename)
     IN IF folder = "existing"
        THEN Out(Resp(200, TRUE, "Face registered", student_name),
                 api_record_attendance_in_dynamodb(tbl, class_name, student_name, "Registered", t),
                 bkt1, Empty, 0, 1)
        ELSE
        LET r == api_ResolveFrom(api_list_objects_v2(bkt1, ListPrefix(class_name)), verdict, 1, 0)
            status == IF folder = "attendance" THEN "Present" ELSE "Checked Out"
            key == TableKey(class_name, r.name)
        IN IF r.status = "error" THEN Exception("compare_faces", tbl, bkt1, r.compared)
           ELSE IF r.name = Empty
           THEN Out(Resp(400, FALSE, Unmatched, Empty), tbl, bkt1, Empty, r.compared, 0)
           ELSE IF status = "Checked Out" /\ (key \notin DOMAIN tbl \/ tbl[key]["status"] # "Present")
           THEN Out(Resp(400, FALSE, "cannot check out without being marked present first", r.name),
                    tbl, bkt1, r.name, r.compared, 0)
           ELSE Out(Resp(200, TRUE, status \o " marked", r.name),
                    api_update_attendance_in_dynamodb(tbl, class_name, r.name, status, t),
                    bkt1, r.name, r.compared, 1)

\* the listing the comparison loop of a request walks: the roster after the
\* request's own image has been stored
ApiListed(file, class_name, student_name) ==
  api_list_objects_v2(api_upload_to_s3(bucket, class_name, student_name, now, file.filename),
                      ListPrefix(class_name))

ApiStep(file, class_name, student_name, folder, verdict) ==
  LET o == api_upload(file, class_name, student_name, folder, verdict, table, bucket, now)
  IN /\ Cardinality(DOMAIN o.bucket) <= MaxObjects
     /\ table' = o.table
     /\ bucket' = o.bucket
     /\ last' = o.response
     /\ UNCHANGED now

ApiInvalid ==
  \E file \in ApiFiles, class_name \in ClassInputs, student_name \in ApiNameInputs, folder \in FolderInputs :
    /\ ApiValidate(file, class_name, student_name, folder) # "ok"
    /\ ApiStep(file, class_name, student_name, folder, NoVerdict)

ApiRegister ==
  \E file \in ApiValidFiles, class_name \in ClassNames, student_name \in ApiNames :
    ApiStep(file, class_name, student_name, "existing", NoVerdict)

ApiAttend ==
  \E file \in ApiValidFiles, class_name \in ClassNames, student_name \in ApiNames,
     folder \in {"attendance", "checkout"} :
    \E verdict \in Answers(Len(ApiListed(file, class_name, student_name))) :
      ApiStep(file, class_name, student_name, folder, verdict)

NextApi == ApiInvalid \/ ApiRegister \/ ApiAttend \/ Tick

SpecApi == Init /\ [][NextApi]_vars

\* C18: identity resolution is a pure query: a MarkPresent or CheckOut
\* request, whatever its outcome, leaves the blob store as it was, so the
\* roster of the class changes only through Register requests and the probe
\* image never becomes a reference image.
C18_ResolutionIsPureQuery ==
  \A file \in ApiValidFiles, c \in ClassNames, n \in ApiNames, folder \in {"attendance", "checkout"} :
    \A v \in Answers(Len(ApiListed(file, c, n))) :
      LET o == api_upload(file, c, n, folder, v, table, bucket, now)
      IN /\ o.bucket = bucket
         /\ api_list_objects_v2(o.bucket, ListPrefix(c)) = api_list_objects_v2(bucket, ListPrefix(c))

====
